---- MODULE Spec2Model ----
(***************************************************************************)
(* Real-time message synchronisation of the chat feature:                  *)
(*   packages/api/src/routers/chat.ts  - sendMessage mutation, onMessage   *)
(*                                       subscription, the EventEmitter ee *)
(*   apps/web chat component (Chat)    - onData reconciler, handleSubmit   *)
(* Strings are sequences of one-character strings, so that concatenation,  *)
(* length and prefix are computed and not assumed.                         *)
(***************************************************************************)
EXTENDS Integers, Sequences, FiniteSets, TLC

\* ------------------------------------------------------------------ bounds
NumClients == 2
NumConvs == 2
MaxGens == 2
MaxFrags == 2
MaxFeed == 3
MaxOps == 3

Clients == 1..NumClients
Convs == 1..NumConvs
GenIds == 1..MaxGens

\* text a user can type into the input box
Empty == <<>>
Inputs == {<<"h", "i">>}

\* result.textStream of call g: its k-th delta. The provider's text is opaque
\* to the router, so every delta is one symbol of its own.
TextStream(g, k) == {<<"d" \o ToString(g) \o "." \o ToString(k)>>}

VARIABLES
  conv,       \* conv[c]: the conversation the Chat component c shows
  listeners,  \* ee: per event name, the listeners in registration order
  chan,       \* chan[c]: data sent on c's subscription, not yet handled
  messages,   \* messages[c]: the React state `messages` of Chat c
  rendered,   \* rendered[c]: what the last render of Chat c closed over
  pending,    \* pending[c]: sendMessageMutation.isPending of Chat c
  gens,       \* gens[g]: the g-th sendMessage call
  nGens,      \* number of sendMessage calls made so far
  feed,       \* a sequence of snapshots handed to onData one at a time
  fed,        \* fed[c]: how many snapshots of feed onData of c was called with
  trpcClient, \* the operations the tRPC client was given, and each link's share
  audience,   \* audience[g]: the subscriptions registered when call g first
              \* published and not torn down since
  received    \* received[c]: the data onData of c was called with by its
              \* subscription, oldest first

vars == <<conv, listeners, chan, messages, rendered, pending, gens, nGens,
          feed, fed, trpcClient, audience, received>>

\* ------------------------------------------------------------ pure helpers
IsPrefix(s, t) == Len(s) <= Len(t) /\ SubSeq(t, 1, Len(s)) = s

RECURSIVE Concat(_)
Concat(fs) == IF fs = <<>> THEN <<>> ELSE Head(fs) \o Concat(Tail(fs))

Range(s) == {s[i] : i \in 1..Len(s)}

RECURSIVE Without(_, _)
Without(s, x) ==
  IF s = <<>> THEN <<>>
  ELSE IF Head(s) = x THEN Without(Tail(s), x)
       ELSE <<Head(s)>> \o Without(Tail(s), x)

\* crypto.randomUUID() / uuidv4(): a fresh identifier for each call
UserId(g) == <<"u", g>>
AssistantId(g) == <<"a", g>>

\* Array.prototype.findIndex(m => m.id === id): 0 stands for -1
FindIndex(msgs, id) ==
  IF \E i \in 1..Len(msgs) : msgs[i].id = id
  THEN CHOOSE i \in 1..Len(msgs) :
         msgs[i].id = id /\ \A j \in 1..(i - 1) : msgs[j].id # id
  ELSE 0

\* the setMessages updater of onData
UpsertAlwaysAppend(prevMessages, data) == Append(prevMessages, data)
Upsert(prevMessages, data) ==
  LET existingMessageIndex == FindIndex(prevMessages, data.id) IN
  IF existingMessageIndex # 0
  THEN [prevMessages EXCEPT ![existingMessageIndex] = data]
  ELSE Append(prevMessages, data)

\* ee.emit(name, data): the listeners of `name` are called synchronously, in
\* registration order, on the caller's stack; each listener is
\* (data) => emit.next(data) and hands the data to its own subscription.
\* failAt = 0: every listener returns. failAt = k > 0: the k-th listener
\* throws, so the listeners after it are not called.
EmitFirstOnly(ch, name, data, failAt) ==
  [c \in Clients |->
     IF listeners[name] # <<>> /\ listeners[name][1] = c
     THEN Append(ch[c], data) ELSE ch[c]]
EmitPrepend(ch, name, data, failAt) ==
  [c \in Clients |->
     IF c \in Range(listeners[name]) THEN <<data>> \o ch[c] ELSE ch[c]]
EmitToAll(ch, name, data, failAt) == [c \in Clients |-> Append(ch[c], data)]
Emit(ch, name, data, failAt) ==
  LET ls == listeners[name]
      n == IF failAt = 0 THEN Len(ls) ELSE failAt - 1
  IN [c \in Clients |->
        IF \E i \in 1..n : ls[i] = c THEN Append(ch[c], data) ELSE ch[c]]

\* one ee.emit call, as recorded in the history of the call that made it
Event(name, data) == [name |-> name, data |-> data]

NoMessage == [id |-> <<"none", 0>>, content |-> Empty, role |-> "none"]

NoGen == [pc |-> "idle", client |-> 0, input |-> <<>>,
          assistantMessage |-> NoMessage, frags |-> <<>>, published |-> <<>>,
          cause |-> "none", thrower |-> 0, settled |-> FALSE,
          reentered |-> FALSE]

\* trpc.createClient({ links: [link] }): nothing sent yet
NoOps == [ops |-> <<>>, ws |-> <<>>, http |-> <<>>]

\* ------------------------------------------------------------------- Init
Init ==
  /\ conv \in [Clients -> Convs]
  /\ listeners = [newMessage |-> <<>>, updateMessage |-> <<>>]
  /\ chan = [c \in Clients |-> <<>>]
  /\ messages = [c \in Clients |-> <<>>]
  /\ rendered = [c \in Clients |-> [messages |-> <<>>, disabled |-> FALSE]]
  /\ pending = [c \in Clients |-> FALSE]
  /\ gens = [g \in GenIds |-> NoGen]
  /\ nGens = 0
  /\ feed = <<>>
  /\ fed = [c \in Clients |-> 0]
  /\ trpcClient = NoOps
  /\ audience = [g \in GenIds |-> {}]
  /\ received = [c \in Clients |-> <<>>]

\* ---------------------------------------------------------- chat component
\* React commits a render of Chat c: the handlers now close over the state
Render(c) ==
  /\ rendered[c] # [messages |-> messages[c], disabled |-> pending[c]]
  /\ rendered' = [rendered EXCEPT
                    ![c] = [messages |-> messages[c], disabled |-> pending[c]]]
  /\ UNCHANGED <<received, conv, listeners, chan, messages, pending, gens,
                 nGens, feed, fed, trpcClient, audience>>

\* onData(data) { setMessages(prevMessages => ...) }
ApplyOnData(c, data) ==
  messages' = [messages EXCEPT ![c] = Upsert(messages[c], data)]

OnData(c) ==
  /\ chan[c] # <<>>
  /\ ApplyOnData(c, Head(chan[c]))
  /\ chan' = [chan EXCEPT ![c] = Tail(chan[c])]
  /\ received' = [received EXCEPT ![c] = Append(received[c], Head(chan[c]))]
  /\ UNCHANGED <<conv, listeners, rendered, pending, gens, nGens,
                 feed, fed, trpcClient, audience>>

\* handleSubmit with `input` = text: `messages` is the value the last render
\* closed over; the mutation goes out with the whole history, and the submit
\* event ends with a synchronous re-render (the input box is now disabled)
HandleSubmit(c, text) ==
  /\ ~rendered[c].disabled
  /\ text # Empty
  /\ nGens < MaxGens
  /\ LET g == nGens + 1
         newUserMessage ==
           [id |-> UserId(g), content |-> text, role |-> "user"]
         newMessages == Append(rendered[c].messages, newUserMessage)
     IN /\ messages' = [messages EXCEPT ![c] = newMessages]
        /\ gens' = [gens EXCEPT ![g] = [NoGen EXCEPT !.pc = "sent",
                                                     !.client = c,
                                                     !.input = newMessages]]
        /\ nGens' = g
        /\ rendered' = [rendered EXCEPT
                          ![c] = [messages |-> newMessages, disabled |-> TRUE]]
  /\ pending' = [pending EXCEPT ![c] = TRUE]
  /\ UNCHANGED <<received, conv, listeners, chan, feed, fed, trpcClient,
                 audience>>

\* the mutation's promise settles in the client (result or error)
MutationSettled(g) ==
  /\ gens[g].pc \in {"returned", "rejected"}
  /\ ~gens[g].settled
  /\ gens' = [gens EXCEPT ![g].settled = TRUE]
  /\ pending' = [pending EXCEPT ![gens[g].client] = FALSE]
  /\ UNCHANGED <<received, conv, listeners, chan, messages, rendered, nGens,
                 feed, fed, trpcClient, audience>>

\* ------------------------------------------------------------- chat router
\* sendMessage up to `await streamText(...)`: lines 30-51. kUser / kAssistant
\* say which listener, if any, throws during the emit of line 35 / line 45;
\* an exception leaves the mutation at once, which rejects.
Thrown(g, name, k) ==
  [gens[g] EXCEPT !.pc = "rejected", !.cause = "listener",
                  !.thrower = listeners[name][k]]

\* what lines 34-45 publish when no listener throws: the user message, if
\* the last message is one, then the new assistant message
StartEventsAssistantFirst(userEvents, assistantMessage) ==
  <<Event("newMessage", assistantMessage)>> \o userEvents
StartEvents(userEvents, assistantMessage) ==
  Append(userEvents, Event("newMessage", assistantMessage))

StartBody(g, kUser, kAssistant) ==
  /\ gens[g].pc = "sent"
  /\ LET msgs == gens[g].input
         lastMessage == msgs[Len(msgs)]
         assistantMessage ==
           [id |-> AssistantId(g), content |-> Empty, role |-> "assistant"]
         emitsUser == Len(msgs) > 0 /\ lastMessage.role = "user"
         userEvents == IF emitsUser
                       THEN <<Event("newMessage", lastMessage)>>
                       ELSE <<>>
         chan1 == IF emitsUser
                  THEN Emit(chan, "newMessage", lastMessage, kUser)
                  ELSE chan
     IN IF emitsUser /\ kUser # 0
        THEN /\ chan' = chan1
             /\ gens' = [gens EXCEPT
                          ![g] = [Thrown(g, "newMessage", kUser) EXCEPT
                                    !.published = userEvents]]
        ELSE /\ chan' = Emit(chan1, "newMessage", assistantMessage,
                             kAssistant)
             /\ gens' = [gens EXCEPT
                          ![g] = [(IF kAssistant # 0
                                   THEN Thrown(g, "newMessage", kAssistant)
                                   ELSE [gens[g] EXCEPT !.pc = "streaming"])
                                  EXCEPT
                                    !.assistantMessage = assistantMessage,
                                    !.published =
                                       StartEvents(userEvents,
                                                   assistantMessage)]]
  /\ audience' = [audience EXCEPT ![g] = Range(listeners.newMessage)]
  /\ UNCHANGED <<received, conv, listeners, messages, rendered, pending, nGens,
                 feed, fed, trpcClient>>

SendMessageStart(g) == StartBody(g, 0, 0)

\* the object a listener was handed by the emit that call g recorded as event
\* e, as it is now. Line 35 passes a message of the input, which nothing
\* writes to; line 45 passes assistantMessage itself, the object line 55
\* goes on appending to; line 56 passes a copy, { ...assistantMessage }.
HandedObject(g, e) ==
  IF e.name = "newMessage" /\ e.data.id = AssistantId(g)
  THEN gens[g].assistantMessage
  ELSE e.data

\* one turn of `for await (const delta of result.textStream)`: lines 54-57
AppendDeltaShared(content, delta) ==
  LET longest == CHOOSE g \in GenIds :
                   \A h \in GenIds :
                     Len(gens[h].assistantMessage.content)
                       <= Len(gens[g].assistantMessage.content)
  IN gens[longest].assistantMessage.content \o delta
AppendDeltaPrepend(content, delta) == delta \o content
AppendDeltaDropUnheard(content, delta) ==
  IF listeners.updateMessage = <<>> THEN content ELSE content \o delta
AppendDeltaReplace(content, delta) == delta
AppendDelta(content, delta) == content \o delta

DeltaBody(g, delta, k) ==
  /\ gens[g].pc = "streaming"
  /\ Len(gens[g].frags) < MaxFrags
  /\ LET assistantMessage ==
           [gens[g].assistantMessage EXCEPT
              !.content = AppendDelta(gens[g].assistantMessage.content, delta)]
     IN /\ chan' = Emit(chan, "updateMessage", assistantMessage, k)
        /\ gens' = [gens EXCEPT
                     ![g] = [(IF k # 0 THEN Thrown(g, "updateMessage", k)
                                      ELSE gens[g])
                             EXCEPT
                               !.assistantMessage = assistantMessage,
                               !.frags = Append(gens[g].frags, delta),
                               !.published =
                                  Append(gens[g].published,
                                         Event("updateMessage",
                                               assistantMessage))]]
  /\ UNCHANGED <<received, conv, listeners, messages, rendered, pending, nGens,
                 feed, fed, trpcClient, audience>>

SendMessageDelta(g, delta) == DeltaBody(g, delta, 0)

\* the text stream ends: return assistantMessage (line 59)
SendMessageReturnPlaceholder(g) ==
  /\ gens[g].pc = "streaming"
  /\ gens' = [gens EXCEPT ![g].pc = "returned",
                          ![g].assistantMessage.content = Empty]
  /\ UNCHANGED <<received, conv, listeners, chan, messages, rendered, pending,
                 nGens, feed, fed, trpcClient, audience>>
SendMessageReturn(g) ==
  /\ gens[g].pc = "streaming"
  /\ gens' = [gens EXCEPT ![g].pc = "returned"]
  /\ UNCHANGED <<received, conv, listeners, chan, messages, rendered, pending,
                 nGens, feed, fed, trpcClient, audience>>

\* the text stream raises inside the for-await: no try/catch encloses the
\* loop, so the mutation rejects with the provider's error
SendMessageThrow(g) ==
  /\ gens[g].pc = "streaming"
  /\ gens' = [gens EXCEPT ![g].pc = "rejected", ![g].cause = "source"]
  /\ UNCHANGED <<received, conv, listeners, chan, messages, rendered, pending,
                 nGens, feed, fed, trpcClient, audience>>

\* a listener throws while it is handed the event of line 35, 45 or 56
SendMessageStartListenerThrows(g, k) ==
  /\ gens[g].pc = "sent"
  /\ k \in 1..Len(listeners.newMessage)
  /\ \/ /\ gens[g].input[Len(gens[g].input)].role = "user"
        /\ StartBody(g, k, 0)
     \/ StartBody(g, 0, k)

SendMessageDeltaListenerThrows(g, delta, k) ==
  /\ k \in 1..Len(listeners.updateMessage)
  /\ DeltaBody(g, delta, k)

\* the input parser of sendMessage: z.object({ messages: z.array(messageSchema)
\* }) with messageSchema = { id: z.string(), content: z.string(), role:
\* z.enum(['user', 'assistant']) }. Neither the array nor a string has a
\* minimum length.
MessageSchema(m) == m.role \in {"user", "assistant"}
InputSchema(msgs) == \A i \in 1..Len(msgs) : MessageSchema(msgs[i])

\* the request bodies a caller of the public procedure can send as call g:
\* the id of the new user message is the caller's choice, a fresh one or one
\* it has seen in an earlier turn
Requests(g) ==
  {<<>>,
   <<[id |-> UserId(g), content |-> Empty, role |-> "user"]>>,
   <<[id |-> UserId(g), content |-> <<"h", "i">>, role |-> "user"]>>,
   <<[id |-> UserId(g), content |-> <<"h", "i">>, role |-> "system"]>>}
  \cup
  {<<[id |-> id, content |-> <<"h", "i">>, role |-> "user"]>> :
     id \in UNION {{gens[h].published[i].data.id :
                      i \in 1..Len(gens[h].published)} : h \in 1..(g - 1)}}

\* a request for sendMessage arrives: the input is parsed before the
\* resolver runs, and a request the parser refuses is answered with an error
SendMessageRequest(msgs) ==
  /\ nGens < MaxGens
  /\ LET g == nGens + 1 IN
       /\ msgs \in Requests(g)
       /\ gens' = [gens EXCEPT
                     ![g] = IF InputSchema(msgs)
                            THEN [NoGen EXCEPT !.pc = "sent", !.input = msgs]
                            ELSE [NoGen EXCEPT !.pc = "rejected",
                                               !.input = msgs,
                                               !.cause = "input"]]
       /\ nGens' = g
  /\ UNCHANGED <<received, conv, listeners, chan, messages, rendered, pending,
                 feed, fed, trpcClient, audience>>

\* onMessage: ee.on('newMessage', ...); ee.on('updateMessage', ...)
SubscribeWithCatchUp(c) ==
  /\ c \notin Range(listeners.newMessage)
  /\ c \notin Range(listeners.updateMessage)
  /\ listeners' = [newMessage |-> Append(listeners.newMessage, c),
                   updateMessage |-> Append(listeners.updateMessage, c)]
  /\ chan' = [chan EXCEPT
                ![c] = IF \E g \in GenIds : gens[g].pc = "streaming"
                       THEN <<gens[CHOOSE g \in GenIds :
                                     gens[g].pc = "streaming"].assistantMessage>>
                       ELSE <<>>]
  /\ UNCHANGED <<received, conv, messages, rendered, pending, gens, nGens,
                 feed, fed, trpcClient, audience>>
Subscribe(c) ==
  /\ c \notin Range(listeners.newMessage)
  /\ c \notin Range(listeners.updateMessage)
  /\ listeners' = [newMessage |-> Append(listeners.newMessage, c),
                   updateMessage |-> Append(listeners.updateMessage, c)]
  /\ UNCHANGED <<received, conv, chan, messages, rendered, pending, gens, nGens,
                 feed, fed, trpcClient, audience>>

\* the teardown's effect on ee: ee.off('newMessage', onNewMessage);
\* ee.off('updateMessage', onUpdateMessage). off removes the listener it is
\* given and nothing when that listener is not registered.
OffOnlyNewMessage(ls, c) == [newMessage |-> Without(ls.newMessage, c),
                             updateMessage |-> ls.updateMessage]
OffRemoveAll(ls, c) == [newMessage |-> <<>>, updateMessage |-> <<>>]
Off(ls, c) == [newMessage |-> Without(ls.newMessage, c),
               updateMessage |-> Without(ls.updateMessage, c)]

\* the teardown returned by the observable: ee.off(...) twice; what was still
\* on its way to the subscriber is dropped with the subscription
Teardown(c) ==
  /\ c \in Range(listeners.newMessage) \cup Range(listeners.updateMessage)
  /\ listeners' = Off(listeners, c)
  /\ chan' = [chan EXCEPT ![c] = <<>>]
  /\ audience' = [g \in GenIds |-> audience[g] \ {c}]
  /\ UNCHANGED <<received, conv, messages, rendered, pending, gens, nGens,
                 feed, fed, trpcClient>>

\* an emit during which the callback of the k-th listener changes the
\* listener set: emit calls the listeners that were registered when it began,
\* each once, whatever is added or removed meanwhile (it walks a copy of the
\* list). d is the subscription that is torn down.
CalledDuringLive(ls, k, d) ==
  IF \E i \in 1..k : ls[i] = d
  THEN IF k + 1 <= Len(ls) THEN Without(ls, ls[k + 1]) ELSE ls
  ELSE Without(ls, d)
CalledDuring(ls, k, d) == ls

\* a turn of the loop of lines 54-57 whose emit is interrupted: the callback
\* of the k-th 'updateMessage' listener runs the teardown of subscription d
SendMessageDeltaDuringTeardown(g, delta, k, d) ==
  /\ gens[g].pc = "streaming"
  /\ Len(gens[g].frags) < MaxFrags
  /\ k \in 1..Len(listeners.updateMessage)
  /\ d \in Range(listeners.updateMessage)
  /\ LET assistantMessage ==
           [gens[g].assistantMessage EXCEPT
              !.content = AppendDelta(gens[g].assistantMessage.content, delta)]
         called == CalledDuring(listeners.updateMessage, k, d)
     IN /\ chan' = [c \in Clients |->
                      IF c = d THEN <<>>
                      ELSE IF c \in Range(called)
                           THEN Append(chan[c], assistantMessage)
                           ELSE chan[c]]
        /\ gens' = [gens EXCEPT
                     ![g] = [gens[g] EXCEPT
                               !.assistantMessage = assistantMessage,
                               !.frags = Append(gens[g].frags, delta),
                               !.reentered = TRUE,
                               !.published =
                                  Append(gens[g].published,
                                         Event("updateMessage",
                                               assistantMessage))]]
  /\ listeners' = Off(listeners, d)
  /\ audience' = [h \in GenIds |-> audience[h] \ {d}]
  /\ UNCHANGED <<received, conv, messages, rendered, pending, nGens,
                 feed, fed, trpcClient>>

\* the same, where the callback registers the subscription d: the listener
\* added during the emit is not called by it
SendMessageDeltaDuringSubscribe(g, delta, k, d) ==
  /\ gens[g].pc = "streaming"
  /\ Len(gens[g].frags) < MaxFrags
  /\ k \in 1..Len(listeners.updateMessage)
  /\ d \notin Range(listeners.newMessage)
  /\ d \notin Range(listeners.updateMessage)
  /\ LET assistantMessage ==
           [gens[g].assistantMessage EXCEPT
              !.content = AppendDelta(gens[g].assistantMessage.content, delta)]
     IN /\ chan' = Emit(chan, "updateMessage", assistantMessage, 0)
        /\ gens' = [gens EXCEPT
                     ![g] = [gens[g] EXCEPT
                               !.assistantMessage = assistantMessage,
                               !.frags = Append(gens[g].frags, delta),
                               !.reentered = TRUE,
                               !.published =
                                  Append(gens[g].published,
                                         Event("updateMessage",
                                               assistantMessage))]]
  /\ listeners' = [newMessage |-> Append(listeners.newMessage, d),
                   updateMessage |-> Append(listeners.updateMessage, d)]
  /\ UNCHANGED <<received, conv, messages, rendered, pending, nGens,
                 feed, fed, trpcClient, audience>>

\* ------------------------------------------------------ the client's links
\* the operations the web client can be asked to send: tRPC's three operation
\* types on the procedures of the chat router
OpTypes == {"query", "mutation", "subscription"}
Paths == {"chat.sendMessage", "chat.onMessage"}
Ops == [type : OpTypes, path : Paths]

\* splitLink({ condition(op) { return op.type === 'subscription'; },
\*             true: wsLink(...), false: httpBatchLink(...) })
ConditionByPath(op) == op.path = "chat.onMessage"
Condition(op) == op.type = "subscription"
SplitLink(op) == IF Condition(op) THEN "wsLink" ELSE "httpBatchLink"

\* the client is given operation op: the one link of its chain, the split
\* link, passes it to the branch its condition selects
Request(op) ==
  /\ Len(trpcClient.ops) < MaxOps
  /\ trpcClient' =
       [ops |-> Append(trpcClient.ops, op),
        ws |-> IF SplitLink(op) = "wsLink"
               THEN Append(trpcClient.ws, op) ELSE trpcClient.ws,
        http |-> IF SplitLink(op) = "httpBatchLink"
                 THEN Append(trpcClient.http, op) ELSE trpcClient.http]
  /\ UNCHANGED <<received, conv, listeners, chan, messages, rendered,
                 pending, gens,
                 nGens, feed, fed, audience>>

\* ------------------------------------------- the reconciler fed directly
\* the snapshots a subscription can carry: the user message of a turn and
\* the assistant message of a turn with any prefix of its text
RECURSIVE StreamPrefix(_, _)
StreamPrefix(g, k) ==
  IF k = 0 THEN Empty
  ELSE StreamPrefix(g, k - 1) \o (CHOOSE d \in TextStream(g, k) : TRUE)

Snapshots ==
  {[id |-> UserId(g), content |-> text, role |-> "user"] :
     g \in GenIds, text \in Inputs}
  \cup
  {[id |-> AssistantId(g), content |-> StreamPrefix(g, k),
    role |-> "assistant"] : g \in GenIds, k \in 0..MaxFrags}

SeqsUpTo(S, n) == UNION {[1..k -> S] : k \in 0..n}

\* onData is called with the next snapshot of the feed
FeedOnData(c) ==
  /\ fed[c] < Len(feed)
  /\ ApplyOnData(c, feed[fed[c] + 1])
  /\ fed' = [fed EXCEPT ![c] = fed[c] + 1]
  /\ UNCHANGED <<received, conv, listeners, chan, rendered, pending, gens,
                 nGens,
                 feed, trpcClient, audience>>

InitFeed ==
  /\ conv = [c \in Clients |-> 1]
  /\ listeners = [newMessage |-> <<>>, updateMessage |-> <<>>]
  /\ chan = [c \in Clients |-> <<>>]
  /\ messages = [c \in Clients |-> <<>>]
  /\ rendered = [c \in Clients |-> [messages |-> <<>>, disabled |-> FALSE]]
  /\ pending = [c \in Clients |-> FALSE]
  /\ gens = [g \in GenIds |-> NoGen]
  /\ nGens = 0
  /\ feed \in SeqsUpTo(Snapshots, MaxFeed)
  /\ fed = [c \in Clients |-> 0]
  /\ trpcClient = NoOps
  /\ audience = [g \in GenIds |-> {}]
  /\ received = [c \in Clients |-> <<>>]

\* --------------------------------------------------------- specifications
\* the whole system: Chat components, the router and the hub
Next ==
  \/ \E c \in Clients : Render(c)
  \/ \E c \in Clients : OnData(c)
  \/ \E c \in Clients : \E text \in Inputs : HandleSubmit(c, text)
  \/ \E g \in GenIds : MutationSettled(g)
  \/ \E g \in GenIds : SendMessageStart(g)
  \/ \E g \in GenIds :
       \E delta \in TextStream(g, Len(gens[g].frags) + 1) :
         SendMessageDelta(g, delta)
  \/ \E g \in GenIds : SendMessageReturn(g)
  \/ \E g \in GenIds : SendMessageThrow(g)
  \/ \E c \in Clients : Subscribe(c)
  \/ \E c \in Clients : Teardown(c)
  \/ \E msgs \in Requests(nGens + 1) : SendMessageRequest(msgs)
  \/ \E op \in Ops : Request(op)
  \/ \E g \in GenIds : \E k \in Clients : \E d \in Clients :
       \E delta \in TextStream(g, Len(gens[g].frags) + 1) :
         \/ SendMessageDeltaDuringTeardown(g, delta, k, d)
         \/ SendMessageDeltaDuringSubscribe(g, delta, k, d)

Spec == Init /\ [][Next]_vars

\* the router and the hub under every order of calls, subscriptions and
\* teardowns; the subscribers do not drain their channels (no step of the
\* router or the hub reads what a Chat component did with its data)
NextHub ==
  \/ \E c \in Clients : Render(c)
  \/ \E c \in Clients : \E text \in Inputs : HandleSubmit(c, text)
  \/ \E g \in GenIds : MutationSettled(g)
  \/ \E g \in GenIds : SendMessageStart(g)
  \/ \E g \in GenIds :
       \E delta \in TextStream(g, Len(gens[g].frags) + 1) :
         SendMessageDelta(g, delta)
  \/ \E g \in GenIds : SendMessageReturn(g)
  \/ \E g \in GenIds : SendMessageThrow(g)
  \/ \E c \in Clients : Subscribe(c)
  \/ \E c \in Clients : Teardown(c)

SpecHub == Init /\ [][NextHub]_vars

\* the same, where a listener may throw while it is handed an event
NextFault ==
  \/ NextHub
  \/ \E g \in GenIds : \E k \in Clients :
       SendMessageStartListenerThrows(g, k)
  \/ \E g \in GenIds : \E k \in Clients :
       \E delta \in TextStream(g, Len(gens[g].frags) + 1) :
         SendMessageDeltaListenerThrows(g, delta, k)

\* (the conversations play no part in it: all clients show the same one)
InitFault == Init /\ conv = [c \in Clients |-> 1]

SpecFault == InitFault /\ [][NextFault]_vars

\* in the specifications driven by a feed one Chat component is mounted
Alone(c) ==
  \A d \in Clients \ {c} : fed[d] = 0 /\ messages[d] = <<>> /\ ~pending[d]

\* the reconciler alone: onData called with every bounded snapshot sequence
NextReconciler == \E c \in Clients : Alone(c) /\ FeedOnData(c)

SpecReconciler == InitFeed /\ [][NextReconciler]_vars

\* one Chat component and its user: subscription data in any order, renders
\* and submits
NextChat ==
  \/ \E c \in Clients : Alone(c) /\ FeedOnData(c)
  \/ \E c \in Clients : Alone(c) /\ Render(c)
  \/ \E c \in Clients : \E text \in Inputs :
       Alone(c) /\ HandleSubmit(c, text)

SpecChat == InitFeed /\ [][NextChat]_vars

\* one turn from end to end: a single submit, every order of subscriptions,
\* teardowns, deliveries and renders around it
NextTurn ==
  \/ \E c \in Clients : Render(c)
  \/ \E c \in Clients : OnData(c)
  \/ \E c \in Clients : \E text \in Inputs : nGens = 0 /\ HandleSubmit(c, text)
  \/ \E g \in GenIds : MutationSettled(g)
  \/ \E g \in GenIds : SendMessageStart(g)
  \/ \E g \in GenIds :
       \E delta \in TextStream(g, Len(gens[g].frags) + 1) :
         SendMessageDelta(g, delta)
  \/ \E g \in GenIds : SendMessageReturn(g)
  \/ \E g \in GenIds : SendMessageThrow(g)
  \/ \E c \in Clients : Subscribe(c)
  \/ \E c \in Clients : Teardown(c)

SpecTurn == InitFault /\ [][NextTurn]_vars

\* the router called by any client of the public procedure: one request
\* with any body of Requests, and subscribers that handle what they are
\* handed
NextApi ==
  \/ \E msgs \in Requests(nGens + 1) : nGens = 0 /\ SendMessageRequest(msgs)
  \/ \E g \in GenIds : SendMessageStart(g)
  \/ \E g \in GenIds :
       \E delta \in TextStream(g, Len(gens[g].frags) + 1) :
         SendMessageDelta(g, delta)
  \/ \E g \in GenIds : SendMessageReturn(g)
  \/ \E g \in GenIds : SendMessageThrow(g)
  \/ \E c \in Clients : Subscribe(c)
  \/ \E c \in Clients : Teardown(c)
  \/ \E c \in Clients : OnData(c)

SpecApi == InitFault /\ [][NextApi]_vars

\* the router called turn after turn by callers that choose their message
\* ids, with one subscription that comes and goes
NextIds ==
  \/ \E msgs \in Requests(nGens + 1) : SendMessageRequest(msgs)
  \/ \E g \in GenIds : SendMessageStart(g)
  \/ \E g \in GenIds :
       \E delta \in TextStream(g, Len(gens[g].frags) + 1) :
         SendMessageDelta(g, delta)
  \/ \E g \in GenIds : SendMessageReturn(g)
  \/ \E g \in GenIds : SendMessageThrow(g)
  \/ Subscribe(1)
  \/ Teardown(1)

SpecIds == InitFault /\ [][NextIds]_vars

\* the web client's link chain given every bounded sequence of operations
NextRouter == \E op \in Ops : Request(op)

SpecRouter == InitFault /\ [][NextRouter]_vars

\* one Chat component, its user and the router over several turns: the
\* submits, the deliveries, the renders and the subscription of client 1
NextSolo ==
  \/ Render(1)
  \/ OnData(1)
  \/ \E text \in Inputs : HandleSubmit(1, text)
  \/ \E g \in GenIds : MutationSettled(g)
  \/ \E g \in GenIds : SendMessageStart(g)
  \/ \E g \in GenIds :
       \E delta \in TextStream(g, Len(gens[g].frags) + 1) :
         SendMessageDelta(g, delta)
  \/ \E g \in GenIds : SendMessageReturn(g)
  \/ \E g \in GenIds : SendMessageThrow(g)
  \/ Subscribe(1)
  \/ Teardown(1)

SpecSolo == InitFault /\ [][NextSolo]_vars

\* the router and the hub where a listener's callback may change the
\* listener set in the middle of an emit
NextReentrant ==
  \/ NextHub
  \/ \E g \in GenIds : \E k \in Clients : \E d \in Clients :
       \E delta \in TextStream(g, Len(gens[g].frags) + 1) :
         SendMessageDeltaDuringTeardown(g, delta, k, d)
  \/ \E g \in GenIds : \E k \in Clients : \E d \in Clients :
       \E delta \in TextStream(g, Len(gens[g].frags) + 1) :
         SendMessageDeltaDuringSubscribe(g, delta, k, d)

SpecReentrant == InitFault /\ [][NextReentrant]_vars

\* ------------------------------------------------------------- properties
Ids(msgs) == [i \in 1..Len(msgs) |-> msgs[i].id]

\* the ids of a snapshot sequence, each once, in order of first occurrence
RECURSIVE FirstSeenIds(_)
FirstSeenIds(s) ==
  IF s = <<>> THEN <<>>
  ELSE LET rest == FirstSeenIds(SubSeq(s, 1, Len(s) - 1))
           id == s[Len(s)].id
       IN IF id \in Range(rest) THEN rest ELSE Append(rest, id)

Fed(c) == SubSeq(feed, 1, fed[c])

HasState(m) == "state" \in DOMAIN m
StateOf(m) == IF HasState(m) THEN m.state ELSE "untagged"
IsFailed(m) == StateOf(m) = "failed"

IsAssistantEvent(g, e) == e.data.id = AssistantId(g)
AssistantEvents(g) ==
  SelectSeq(gens[g].published, LAMBDA e : IsAssistantEvent(g, e))

\* C1: whatever snapshots onData is called with, one at a time from an empty
\* list, the list holds exactly one entry per distinct id, in the order in
\* which the ids first occurred.
C1_IdempotentUpsert ==
  \A c \in Clients :
    /\ Ids(messages[c]) = FirstSeenIds(Fed(c))
    /\ Cardinality(Range(Ids(messages[c]))) = Len(messages[c])

C1_Witness ==
  \E c \in Clients :
    /\ fed[c] = Len(feed)
    /\ fed[c] >= 3
    /\ feed[1].id # feed[2].id
    /\ feed[3].id = feed[1].id
    /\ feed[3].content # feed[1].content
    /\ Len(messages[c]) = 2

\* C2: once a message id is at index i of a client's list it is at index i
\* in every later state of the list, whatever onData and handleSubmit do.
C2_FirstSeenPositionPermanent ==
  [][\A c \in Clients :
       \A i \in 1..Len(messages[c]) :
         /\ i <= Len(messages'[c])
         /\ messages'[c][i].id = messages[c][i].id]_vars

\* C3: once onData has been called with a snapshot of some id, the entry of
\* that id never holds a shorter content than that snapshot's, unless the
\* snapshot that set the entry is in state failed.
C3_NoContentRegression ==
  \A c \in Clients :
    \A i \in 1..fed[c] :
      \A j \in 1..Len(messages[c]) :
        messages[c][j].id = feed[i].id =>
          \/ Len(messages[c][j].content) >= Len(feed[i].content)
          \/ IsFailed(messages[c][j])

\* C4: in the snapshots sendMessage publishes for one assistant id, the
\* content of each snapshot has the content of the one before it as a prefix.
C4_MonotonicStreamingContent ==
  \A g \in GenIds :
    LET evs == AssistantEvents(g) IN
    \A i \in 1..(Len(evs) - 1) :
      IsPrefix(evs[i].data.content, evs[i + 1].data.content)

C4_Witness ==
  \E g \in GenIds :
    LET evs == AssistantEvents(g) IN
    /\ gens[g].pc = "returned"
    /\ Len(evs) = 3
    /\ Len(evs[1].data.content) < Len(evs[2].data.content)
    /\ Len(evs[2].data.content) < Len(evs[3].data.content)

\* C5: when the text stream raises, the last snapshot published for the
\* assistant id is in state failed and its content is the concatenation of
\* the deltas received before the error.
C5_FailureSurfacedAsFailedSnapshot ==
  \A g \in GenIds :
    gens[g].cause = "source" =>
      LET evs == AssistantEvents(g) IN
      /\ Len(evs) > 0
      /\ evs[Len(evs)].data.content = Concat(gens[g].frags)
      /\ IsFailed(evs[Len(evs)].data)

\* C6: an error of the text stream after the turn was accepted does not reach
\* the caller: the sendMessage call still returns its acknowledgment.
C6_SourceErrorNotPropagated ==
  \A g \in GenIds :
    (gens[g].cause = "source" /\ gens[g].published # <<>>) =>
      gens[g].pc = "returned"

\* C7: every snapshot published for an assistant message carries a state
\* tag; the tags go created, streaming, then one terminal tag (complete on
\* normal end, failed on error), and a finished call has published its
\* terminal snapshot, last.
C7_AssistantLifecycle ==
  \A g \in GenIds :
    LET evs == AssistantEvents(g)
        tag(i) == StateOf(evs[i].data)
    IN /\ \A i \in 1..Len(evs) :
            /\ tag(i) \in {"created", "streaming", "complete", "failed"}
            /\ (i = 1) = (tag(i) = "created")
            /\ tag(i) \in {"complete", "failed"} => i = Len(evs)
       /\ gens[g].pc = "returned" =>
            Len(evs) > 0 /\ tag(Len(evs)) = "complete"
       /\ gens[g].pc = "rejected" /\ Len(evs) > 0 =>
            tag(Len(evs)) = "failed"

\* C8: at most one assistant message per conversation is streaming; two
\* calls of one conversation never publish deltas in the same period.
Streaming(g) == gens[g].pc = "streaming" /\ gens[g].frags # <<>>

C8_SingleInFlightAssistantTurn ==
  \A g1, g2 \in GenIds :
    (g1 # g2 /\ Streaming(g1) /\ Streaming(g2)) =>
      conv[gens[g1].client] # conv[gens[g2].client]

\* C9: an event of a turn of conversation A is handed only to listeners of
\* clients that show conversation A.
TurnOf(m) == m.id[2]

C9_FanoutScopedPerConversation ==
  \A c \in Clients :
    \A i \in 1..Len(chan[c]) :
      conv[gens[TurnOf(chan[c][i])].client] = conv[c]

\* C10: when a listener fails while it is handed an event, every other
\* registered listener is still handed that event and the sendMessage call
\* that published it is not aborted.
NewEvents(g) ==
  SubSeq(gens'[g].published, Len(gens[g].published) + 1,
         Len(gens'[g].published))

C10_FanoutIsolation ==
  [][\A g \in GenIds :
       NewEvents(g) # <<>> =>
         /\ gens'[g].pc # "rejected"
         /\ LET last == NewEvents(g)[Len(NewEvents(g))] IN
            \A c \in Range(listeners[last.name]) \ {gens'[g].thrower} :
              /\ chan'[c] # <<>>
              /\ chan'[c][Len(chan'[c])] = last.data]_vars

\* C11: unsubscribe is idempotent and local. Whatever the hub's listener set
\* is, running the teardown of subscription c a second time leaves the set
\* exactly as its first run left it, and a run removes c's own two listeners
\* and nothing else: every other subscription keeps its listeners, in the
\* same order.
C11_UnsubscribeIdempotentAndLocal ==
  \A c \in Clients :
    LET once == Off(listeners, c) IN
      /\ Off(once, c) = once
      /\ c \notin Range(once.newMessage) \cup Range(once.updateMessage)
      /\ \A name \in {"newMessage", "updateMessage"} :
           /\ Range(once[name]) = Range(listeners[name]) \ {c}
           /\ \A i, j \in 1..Len(listeners[name]) :
                (i < j /\ listeners[name][i] # c /\ listeners[name][j] # c)
                => \E k, l \in 1..Len(once[name]) :
                     /\ k < l
                     /\ once[name][k] = listeners[name][i]
                     /\ once[name][l] = listeners[name][j]

\* a teardown that has something to remove and something to keep, while a
\* call is publishing
C11_Witness ==
  /\ Len(listeners.newMessage) = NumClients
  /\ Len(listeners.updateMessage) = NumClients
  /\ \E g \in GenIds : gens[g].pc = "streaming"

Registered == Range(listeners.newMessage) \cup Range(listeners.updateMessage)
Datas(es) == [i \in 1..Len(es) |-> es[i].data]

\* C12: unsubscribing in the middle of a stream stops delivery to that
\* subscriber only. A subscriber that is not registered is handed nothing by
\* any publication and has nothing left to handle; a teardown leaves every
\* sendMessage call as it was, so the running generation goes on consuming
\* its fragments; and every publication hands each subscriber that is still
\* registered exactly the published snapshots, up to the last one.
C12_UnsubscribeStopsOnlyThatListener ==
  [][/\ \A g \in GenIds :
          NewEvents(g) # <<>> =>
            \A c \in Clients :
              chan'[c] = IF c \in Range(listeners[NewEvents(g)[1].name])
                         THEN chan[c] \o Datas(NewEvents(g))
                         ELSE chan[c]
     /\ \A c \in Clients :
          (c \in Registered /\ c \notin Registered') =>
            /\ gens' = gens
            /\ \A d \in Clients \ {c} :
                 /\ chan'[d] = chan[d]
                 /\ d \in Registered <=> d \in Registered'
     /\ \A c \in Clients :
          c \notin Registered =>
            /\ chan[c] = <<>>
            /\ c \notin Registered' => chan'[c] = <<>>]_vars

\* c saw the beginning of turn g and was torn down before its end; the call
\* consumed the whole stream and d, still subscribed, holds the final snapshot
C12_Witness ==
  \E g \in GenIds : \E c \in Clients : \E d \in Clients \ {c} :
    /\ gens[g].pc = "returned"
    /\ Len(gens[g].frags) = MaxFrags
    /\ c \notin Registered
    /\ chan[c] = <<>>
    /\ \E i \in 1..Len(messages[c]) :
         /\ messages[c][i].id = AssistantId(g)
         /\ Len(messages[c][i].content)
              < Len(gens[g].assistantMessage.content)
    /\ d \in Registered
    /\ \E j \in 1..Len(messages[d]) :
         messages[d][j] = gens[g].assistantMessage

IsSuffix(s, t) ==
  Len(s) <= Len(t) /\ SubSeq(t, Len(t) - Len(s) + 1, Len(t)) = s
WithId(msgs, id) == SelectSeq(msgs, LAMBDA m : m.id = id)
PublishedIds == {UserId(g) : g \in GenIds} \cup {AssistantId(g) : g \in GenIds}
PublishedOf(id) == WithId(Datas(gens[id[2]].published), id)

\* C13: first in, first out per listener. For one subscriber and one message
\* id, the snapshots of that id the subscriber was handed and has not handled
\* yet are, in this order and without gap or repetition, the last snapshots
\* published for the id: the initial 'newMessage' snapshot comes before the
\* 'updateMessage' snapshots although they travel under different names.
C13_FifoPerListener ==
  \A c \in Clients :
    \A id \in PublishedIds :
      IsSuffix(WithId(chan[c], id), PublishedOf(id))

\* a subscriber that was handed the initial snapshot and every update of an
\* assistant message while another call was publishing too
C13_Witness ==
  \E c \in Clients : \E g \in GenIds : \E h \in GenIds \ {g} :
    /\ Len(WithId(chan[c], AssistantId(g))) = MaxFrags + 1
    /\ WithId(chan[c], AssistantId(g))[1].content = Empty
    /\ WithId(chan[c], AssistantId(h)) # <<>>
    /\ \E i, j \in 1..Len(chan[c]) :
         /\ i < j
         /\ chan[c][i].id = AssistantId(h)
         /\ chan[c][j].id = AssistantId(g)
         /\ \E k \in 1..(i - 1) : chan[c][k].id = AssistantId(g)

OfTurn(msgs, g) ==
  SelectSeq(msgs, LAMBDA m : m.id \in {UserId(g), AssistantId(g)})

\* C14: uniform fan-out. Two subscribers that were both registered before a
\* turn began and have both stayed registered were handed identical event
\* sequences for that turn: the events the turn published, in publish order.
C14_UniformFanout ==
  \A g \in GenIds :
    \A c \in audience[g] : \A d \in audience[g] \ {c} :
      /\ OfTurn(chan[c], g) = OfTurn(chan[d], g)
      /\ OfTurn(chan[c], g) = Datas(gens[g].published)

\* a finished turn of user message, initial snapshot and MaxFrags updates that
\* two subscribers followed from its start to its end
C14_Witness ==
  \E g \in GenIds :
    /\ gens[g].pc = "returned"
    /\ Len(gens[g].published) = MaxFrags + 2
    /\ audience[g] = Clients
    /\ \A c \in Clients : Len(OfTurn(chan[c], g)) = MaxFrags + 2

\* C15: no catch-up on subscribe. The step that registers a subscription
\* hands it nothing, whatever was published before; afterwards the only data
\* it is ever handed are the events of a publication made while it is
\* registered, appended in publish order.
C15_NoCatchUpOnSubscribe ==
  [][\A c \in Clients :
       /\ (c \notin Registered /\ c \in Registered') =>
            chan[c] = <<>> /\ chan'[c] = <<>>
       /\ chan'[c] # chan[c] =>
            \/ chan'[c] = <<>>
            \/ chan[c] # <<>> /\ chan'[c] = Tail(chan[c])
            \/ \E g \in GenIds :
                 /\ NewEvents(g) # <<>>
                 /\ c \in Range(listeners[NewEvents(g)[1].name])
                 /\ chan'[c] = chan[c] \o Datas(NewEvents(g))]_vars

\* c subscribed while turn g was streaming, after every event of the turn but
\* the last: the last snapshot is all it was handed
C15_Witness ==
  \E g \in GenIds : \E c \in Clients :
    /\ Len(gens[g].published) = MaxFrags + 2
    /\ c \in Registered
    /\ c \notin audience[g]
    /\ OfTurn(chan[c], g) = <<gens[g].assistantMessage>>

\* C16: a dropped duplex channel does not cancel the generation. Whatever
\* the listener set is and has been, the assistant message of a call holds
\* the concatenation of every fragment consumed so far, also when the call
\* has returned it; and with no subscription left a streaming call can still
\* take its next fragment and can still return.
C16_GenerationSurvivesTeardown ==
  \A g \in GenIds :
    /\ gens[g].pc \in {"streaming", "returned"} =>
         gens[g].assistantMessage.content = Concat(gens[g].frags)
    /\ (gens[g].pc = "streaming" /\ Registered = {}) =>
         /\ ENABLED SendMessageReturn(g)
         /\ Len(gens[g].frags) < MaxFrags =>
              ENABLED (\E delta \in TextStream(g, Len(gens[g].frags) + 1) :
                         SendMessageDelta(g, delta))

\* every subscription is gone while call g is between two fragments: a
\* client holds the snapshot of the first fragment, so it was subscribed
\* while the call streamed
C16_Witness ==
  \E g \in GenIds : \E c \in Clients :
    /\ gens[g].pc = "streaming"
    /\ Len(gens[g].frags) = 1
    /\ Registered = {}
    /\ \E i \in 1..Len(messages[c]) :
         messages[c][i] = gens[g].assistantMessage

\* a turn the contract calls malformed: no message at all, or a new user
\* message without content
Malformed(msgs) == msgs = <<>> \/ msgs[Len(msgs)].content = Empty

\* C17: a malformed submitted turn (empty message list, or a new user message
\* with empty content) is rejected at the sendMessage boundary: the call
\* publishes no event and never starts the generation.
C17_MalformedTurnRejected ==
  \A g \in GenIds :
    (gens[g].pc # "idle" /\ Malformed(gens[g].input)) =>
      /\ gens[g].published = <<>>
      /\ gens[g].pc \notin {"streaming", "returned"}

\* C18: per-operation transport routing. Of the operations the client was
\* given, the WebSocket link was passed exactly those of type subscription and
\* the HTTP batch link exactly those of type query or mutation, each once and
\* in the order given: the type alone decides, and no operation went over
\* both links or over neither.
C18_TransportRouting ==
  /\ trpcClient.ws =
       SelectSeq(trpcClient.ops, LAMBDA op : op.type = "subscription")
  /\ trpcClient.http =
       SelectSeq(trpcClient.ops, LAMBDA op : op.type \in {"query", "mutation"})
  /\ Len(trpcClient.ws) + Len(trpcClient.http) = Len(trpcClient.ops)

\* one operation of each type was sent, with a subscription and a query on
\* the same procedure path
C18_Witness ==
  /\ {trpcClient.ops[i].type : i \in 1..Len(trpcClient.ops)} = OpTypes
  /\ Len(trpcClient.ws) = 1
  /\ Len(trpcClient.http) = 2
  /\ \E i \in 1..Len(trpcClient.http) :
       trpcClient.http[i].path = trpcClient.ws[1].path

\* C19: event order within one accepted turn. In what a call has published,
\* every event of the assistant message comes after the 'newMessage' event of
\* the turn's user message, and every 'updateMessage' snapshot comes after
\* the assistant message's 'newMessage' event, whose content is empty.
C19_EventOrderWithinTurn ==
  \A g \in GenIds :
    LET p == gens[g].published IN
    \A j \in 1..Len(p) :
      /\ p[j].data.id = AssistantId(g) =>
           \E i \in 1..(j - 1) :
             /\ p[i].name = "newMessage"
             /\ p[i].data = gens[g].input[Len(gens[g].input)]
             /\ p[i].data.role = "user"
      /\ p[j].name = "updateMessage" =>
           \E i \in 1..(j - 1) :
             /\ p[i].name = "newMessage"
             /\ p[i].data.id = p[j].data.id
             /\ p[i].data.content = Empty
      /\ (p[j].name = "newMessage" /\ p[j].data.id = AssistantId(g)) =>
           /\ p[j].data.content = Empty
           /\ \A i \in 1..(j - 1) : p[i].name # "updateMessage"

\* a turn that published its user message, the initial assistant event and
\* MaxFrags update snapshots while another turn was publishing
C19_Witness ==
  \E g \in GenIds : \E h \in GenIds \ {g} :
    /\ Len(gens[g].published) = MaxFrags + 2
    /\ gens[g].published[1].data.role = "user"
    /\ gens[g].published[MaxFrags + 2].name = "updateMessage"
    /\ gens[h].pc = "streaming"

UpdateSnapshots(g) ==
  Datas(SelectSeq(gens[g].published, LAMBDA e : e.name = "updateMessage"))

\* C20: one snapshot per fragment, with the right content. When a call has
\* consumed the fragments f1..fn it has published exactly n update snapshots
\* of its assistant id, the k-th with content f1 \o ... \o fk; so when the
\* stream has ended normally the last published snapshot holds the in-order
\* concatenation of all fragments.
C20_OneSnapshotPerFragment ==
  \A g \in GenIds :
    LET u == UpdateSnapshots(g)
        fs == gens[g].frags
    IN /\ Len(u) = Len(fs)
       /\ \A k \in 1..Len(u) :
            /\ u[k].id = AssistantId(g)
            /\ u[k].content = Concat(SubSeq(fs, 1, k))
       /\ (gens[g].pc = "returned" /\ fs # <<>>) =>
            gens[g].published[Len(gens[g].published)].data.content
              = Concat(fs)

\* a stream of MaxFrags fragments that ended normally
C20_Witness ==
  \E g \in GenIds :
    /\ gens[g].pc = "returned"
    /\ Len(gens[g].frags) = MaxFrags
    /\ Len(UpdateSnapshots(g)) = MaxFrags
    /\ Len(Concat(gens[g].frags)) = MaxFrags

\* C21: message ids are unique. Whatever turns were submitted, with user
\* message ids chosen by the callers and assistant ids generated by the
\* router, two events that any calls published with the same id are events
\* of one message: they come from the same call and carry the same role, so
\* the snapshots of an assistant message never meet another message's entry
\* in an upsert by id.
C21_MessageIdsUnique ==
  \A g \in GenIds : \A h \in GenIds :
    \A i \in 1..Len(gens[g].published) :
      \A j \in 1..Len(gens[h].published) :
        gens[g].published[i].data.id = gens[h].published[j].data.id =>
          /\ g = h
          /\ gens[g].published[i].data.role = gens[h].published[j].data.role

\* C22: snapshots are full, independent copies. Every object a call has
\* handed to the listeners, with its initial 'newMessage' event as with an
\* 'updateMessage' event, still holds what it held when it was handed over,
\* the content accumulated up to that emit, whatever was aggregated since.
C22_SnapshotsAreIndependentCopies ==
  \A g \in GenIds :
    \A i \in 1..Len(gens[g].published) :
      HandedObject(g, gens[g].published[i]) = gens[g].published[i].data

Occurrences(msgs, id) == Len(WithId(msgs, id))

\* C23: robustness to the submit/event race in the submitting client. From
\* the submit of a turn on, whatever the order of the local insert, the
\* server's echo of the user message and the assistant events, the list of
\* the submitting client holds the turn's user message exactly once, and
\* before the assistant message of the turn wherever it holds that one.
C23_SubmitEventRace ==
  \A g \in GenIds :
    gens[g].pc # "idle" =>
      LET msgs == messages[gens[g].client] IN
        /\ Occurrences(msgs, UserId(g)) = 1
        /\ \A i, j \in 1..Len(msgs) :
             (msgs[i].id = AssistantId(g) /\ msgs[j].id = UserId(g)) => j < i

\* the submitting client was handed the echo and the assistant events of its
\* turn and has handled them all
C23_Witness ==
  \E g \in GenIds :
    LET c == gens[g].client IN
      /\ gens[g].pc = "returned"
      /\ Len(gens[g].frags) = MaxFrags
      /\ OfTurn(received[c], g) = Datas(gens[g].published)
      /\ Occurrences(messages[c], AssistantId(g)) = 1

C25_ResubscriptionHealsGap ==
  [][\A c \in Clients :
       received'[c] # received[c] =>
         LET data == received'[c][Len(received'[c])] IN
         \A g \in GenIds :
           data.id = AssistantId(g) =>
             /\ Occurrences(messages'[c], data.id) = 1
             /\ WithId(messages'[c], data.id)[1] = data
             /\ Len(data.content) <= Len(gens[g].frags)
             /\ data.content =
                  Concat(SubSeq(gens[g].frags, 1, Len(data.content)))
             /\ \A i \in 1..Len(received[c]) :
                  received[c][i].id = data.id =>
                    Len(received[c][i].content) < Len(data.content)]_vars

\* c handled the initial event of the assistant message, lost its
\* subscription, subscribed again and handled the last snapshot only: its
\* entry holds the whole text
C25_Witness ==
  \E g \in GenIds : \E c \in Clients :
    /\ Len(gens[g].frags) = MaxFrags
    /\ c \in Registered
    /\ c \notin audience[g]
    /\ WithId(received[c], AssistantId(g))
         = <<[gens[g].assistantMessage EXCEPT !.content = Empty],
             gens[g].assistantMessage>>
    /\ WithId(messages[c], AssistantId(g)) = <<gens[g].assistantMessage>>

\* C26: a local submit never loses received events. In a step of
\* handleSubmit on client c every entry of the list that onData added or
\* updated is still in the list, with the same content, after the append of
\* the new user message.
C26_SubmitKeepsReceivedEvents ==
  [][\A c \in Clients :
       (nGens' = nGens + 1 /\ gens'[nGens'].client = c) =>
         \A i \in 1..Len(messages[c]) :
           (\E k \in 1..fed[c] : feed[k] = messages[c][i]) =>
             \E j \in 1..Len(messages'[c]) :
               messages'[c][j] = messages[c][i]]_vars

\* C27: the acknowledgment agrees with the broadcast. When a call has
\* returned after a stream of at least one fragment, the message it returned
\* is the last snapshot it published: same id, same content.
C27_AcknowledgmentAgreesWithBroadcast ==
  \A g \in GenIds :
    (gens[g].pc = "returned" /\ gens[g].frags # <<>>) =>
      LET last == gens[g].published[Len(gens[g].published)] IN
        /\ last.name = "updateMessage"
        /\ last.data.id = gens[g].assistantMessage.id
        /\ last.data.content = gens[g].assistantMessage.content

\* a call returned after MaxFrags fragments and a subscriber was handed, last
\* of all, the message the call returned
C27_Witness ==
  \E g \in GenIds : \E c \in Clients :
    /\ gens[g].pc = "returned"
    /\ gens[g].settled
    /\ Len(gens[g].frags) = MaxFrags
    /\ chan[c] # <<>>
    /\ chan[c][Len(chan[c])] = gens[g].assistantMessage

\* client c holds exactly one entry of the assistant id of call g, with the
\* content the call returned
Converged(c, g) ==
  /\ gens[g].pc = "returned"
  /\ WithId(messages[c], AssistantId(g)) = <<gens[g].assistantMessage>>

\* C28: convergence, once reached, is kept. When a client that has been
\* subscribed since before a turn holds the one entry of the assistant id
\* with the content sendMessage returned, a step in which it is handed no
\* event leaves that entry as it is.
C28_ConvergedEntryIsStable ==
  [][\A g \in GenIds : \A c \in audience[g] :
       (Converged(c, g) /\ received'[c] = received[c]) =>
         WithId(messages'[c], AssistantId(g)) = <<gens[g].assistantMessage>>]_vars

\* C29: concurrent generations do not mix content. Every snapshot a call
\* has published for its assistant id, and so every snapshot a subscriber was
\* handed, holds the first fragments of that call's own text stream, in
\* their order, and nothing of another call's stream.
C29_ConcurrentGenerationsDoNotMix ==
  \A g \in GenIds :
    /\ \A i \in 1..Len(gens[g].published) :
         gens[g].published[i].data.id = AssistantId(g) =>
           \E k \in 0..MaxFrags :
             gens[g].published[i].data.content = StreamPrefix(g, k)
    /\ \A c \in Clients :
         \A i \in 1..Len(chan[c]) :
           chan[c][i].id = AssistantId(g) =>
             \E k \in 0..MaxFrags : chan[c][i].content = StreamPrefix(g, k)

\* two calls streamed at the same time and a subscriber was handed a fragment
\* of one between two fragments of the other
C29_Witness ==
  \E g \in GenIds : \E h \in GenIds \ {g} : \E c \in Clients :
    /\ Len(gens[g].frags) = MaxFrags
    /\ Len(gens[h].frags) = MaxFrags
    /\ \E i, j, k \in 1..Len(chan[c]) :
         /\ i < j /\ j < k
         /\ chan[c][i].id = AssistantId(g) /\ chan[c][i].content # Empty
         /\ chan[c][j].id = AssistantId(h) /\ chan[c][j].content # Empty
         /\ chan[c][k].id = AssistantId(g)

\* C30: no listener leak. In every reachable state the 'newMessage'
\* listeners and the 'updateMessage' listeners are the same subscriptions,
\* each with one listener per name, and only a subscription that has its
\* listeners has data on its way; so when every subscription has been torn
\* down the hub has no listener.
C30_NoListenerLeak ==
  /\ Len(listeners.newMessage) = Len(listeners.updateMessage)
  /\ Range(listeners.newMessage) = Range(listeners.updateMessage)
  /\ Cardinality(Range(listeners.newMessage)) = Len(listeners.newMessage)
  /\ Cardinality(Range(listeners.updateMessage))
       = Len(listeners.updateMessage)
  /\ \A c \in Clients :
       chan[c] # <<>> => c \in Range(listeners.newMessage)

\* every client had a subscription that handed it events, every subscription
\* has been torn down, and the hub is empty
C30_Witness ==
  /\ \A c \in Clients : received[c] # <<>>
  /\ listeners.newMessage = <<>>
  /\ listeners.updateMessage = <<>>

TypeOK ==
  /\ nGens \in 0..MaxGens
  /\ \A g \in GenIds :
       /\ gens[g].pc \in {"idle", "sent", "streaming", "returned", "rejected"}
       /\ gens[g].cause \in {"none", "source", "listener", "input"}
       /\ audience[g] \subseteq Clients
       /\ gens[g].reentered \in BOOLEAN
  /\ \A c \in Clients : Len(received[c]) <= MaxGens * (MaxFrags + 2)
  /\ Len(trpcClient.ops) <= MaxOps
====
